---------------------------- MODULE Spec2Model ----------------------------
(***************************************************************************)
(* Android unlock-pattern enumerator (main.py).                            *)
(*                                                                         *)
(* The grid is                                                             *)
(*        0 1 2                                                            *)
(*        3 4 5                                                            *)
(*        6 7 8                                                            *)
(* A Python list is a TLA+ sequence; a pattern is a list of dots and a     *)
(* working set is a list of patterns.  Python's None is the value None.    *)
(* The lists thisSet and allPatterns of findAllCombinations are the values *)
(* of findAllPatterns; the state of the script keeps their lengths, which  *)
(* is what the script reports of them.                                     *)
(***************************************************************************)
EXTENDS Integers, Sequences, FiniteSets, TLC

VARIABLES
    call,             \* last call of a grid-topology function and its outcome
    pattern,          \* argument handed to getAllowedNextDots
    candidateDots,    \* list returned by getAllowedNextDots(pattern)
    pc,               \* position in the script / in recursivelyEvaluate
    patternStart,     \* recursivelyEvaluate: parameter
    targetLength,     \* recursivelyEvaluate: parameter
    iterationsToDo,   \* recursivelyEvaluate: number of rounds of the for loop
    i,                \* recursivelyEvaluate: rounds of the for loop completed
    currentPattern,   \* recursivelyEvaluate: the pattern, then the working set
    ret,              \* value returned by the last recursivelyEvaluate call
    length,           \* findAllCombinations: loop variable i (the length)
    lenThisSet,       \* findAllCombinations: len(thisSet), as it reports it
    lenX              \* len of findAllCombinations' allPatterns, the script's x

vars == << call, pattern, candidateDots, pc, patternStart,
           targetLength, iterationsToDo, i, currentPattern, ret,
           length, lenThisSet, lenX >>

-----------------------------------------------------------------------------
(* Python values and list primitives                                       *)

\* Python's None: equal to no dot.
None == -1

\* allDots = [0, 1, 2, 3, 4, 5, 6, 7, 8]
allDots == << 0, 1, 2, 3, 4, 5, 6, 7, 8 >>

Dots == 0 .. 8

\* Python's "v in lst"
InList(v, lst) == \E k \in 1 .. Len(lst) : lst[k] = v

\* The set of the members of a list
Range(lst) == { lst[k] : k \in 1 .. Len(lst) }

\* Python's lst.remove(v): drops the first occurrence of v
ListRemove(lst, v) ==
    LET k == CHOOSE j \in 1 .. Len(lst) :
                 lst[j] = v /\ \A m \in 1 .. (j - 1) : lst[m] # v
    IN  SubSeq(lst, 1, k - 1) \o SubSeq(lst, k + 1, Len(lst))

-----------------------------------------------------------------------------
(* Grid topology                                                           *)

getAdjacent(dot) ==
    CASE dot = 0 -> << 1, 3, 4 >>
      [] dot = 1 -> << 0, 2, 4, 3, 5 >>
      [] dot = 2 -> << 1, 5, 4 >>
      [] dot = 3 -> << 0, 6, 4, 1, 7 >>
      [] dot = 4 -> << 1, 3, 5, 7, 0, 3, 6, 8 >>
      [] dot = 5 -> << 2, 8, 4, 7, 1 >>
      [] dot = 6 -> << 3, 7, 4 >>
      [] dot = 7 -> << 6, 8, 4, 3, 5 >>
      [] dot = 8 -> << 7, 5, 4 >>
      [] OTHER   -> None

getLinear(dot) ==
    CASE dot = 0 -> << 1, 3, 4, 2, 6, 8 >>
      [] dot = 1 -> << 4, 7 >>
      [] dot = 2 -> << 1, 4, 5, 0, 6, 8 >>
      [] dot = 3 -> << 4, 5 >>
      [] dot = 4 -> << >>
      [] dot = 5 -> << 4, 3 >>
      [] dot = 6 -> << 3, 4, 7, 0, 2, 8 >>
      [] dot = 7 -> << 4, 1 >>
      [] dot = 8 -> << 7, 5, 4, 6, 2, 0 >>
      [] OTHER   -> None

\* A table that leaves 7 out of the entry of 1.
getEndLinearNoColumn(dot) ==
    CASE dot = 0 -> << 2, 6, 8 >>
      [] dot = 1 -> << >>
      [] dot = 2 -> << 0, 8, 6 >>
      [] dot = 3 -> << 5 >>
      [] dot = 4 -> << >>
      [] dot = 5 -> << 3 >>
      [] dot = 6 -> << 0, 8, 2 >>
      [] dot = 7 -> << 1 >>
      [] dot = 8 -> << 6, 2, 0 >>
      [] OTHER   -> None

getEndLinear(dot) ==
    CASE dot = 0 -> << 2, 6, 8 >>
      [] dot = 1 -> << 7 >>
      [] dot = 2 -> << 0, 8, 6 >>
      [] dot = 3 -> << 5 >>
      [] dot = 4 -> << >>
      [] dot = 5 -> << 3 >>
      [] dot = 6 -> << 0, 8, 2 >>
      [] dot = 7 -> << 1 >>
      [] dot = 8 -> << 6, 2, 0 >>
      [] OTHER   -> None

min(a, b) == IF a <= b THEN a ELSE b

max(a, b) == IF a >= b THEN a ELSE b

\* Falls off the end of the function (returning None) for every pair that is
\* not one of the eight listed ones.
getMiddle(dot1, dot2) ==
    LET lower  == min(dot1, dot2)
        higher == max(dot1, dot2)
    IN  CASE lower = 0 /\ higher = 2 -> 1
          [] lower = 0 /\ higher = 6 -> 3
          [] lower = 0 /\ higher = 8 -> 4
          [] lower = 1 /\ higher = 7 -> 4
          [] lower = 2 /\ higher = 6 -> 4
          [] lower = 2 /\ higher = 8 -> 5
          [] lower = 3 /\ higher = 5 -> 4
          [] lower = 6 /\ higher = 8 -> 7
          [] OTHER                   -> None

-----------------------------------------------------------------------------
(* Legal-move rule                                                         *)

\* A check against the most recent dot only.
isAlreadyVisitedLastOnly(pat, next) == Len(pat) > 0 /\ pat[Len(pat)] = next

isAlreadyVisited(pat, next) == InList(next, pat)

\* The oldest dot instead of the most recent one.
getLastFirst(pat) == pat[1]

\* currentPattern[len(currentPattern)-1], lists being 0-based in Python
getLast(pat) == pat[Len(pat)]

\* The body of "for dot in allDots", from the k-th dot of allDots on, with
\* cand the list candidateDots as left by the earlier iterations.
RECURSIVE AllowedLoop(_, _, _)
AllowedLoop(pat, k, cand) ==
    IF k > Len(allDots) THEN cand
    ELSE LET dot == allDots[k] IN
         IF isAlreadyVisited(pat, dot)
         THEN AllowedLoop(pat, k + 1, ListRemove(cand, dot))
         ELSE IF InList(dot, getAdjacent(getLast(pat)))
         THEN AllowedLoop(pat, k + 1, cand)
         ELSE IF InList(dot, getEndLinear(getLast(pat)))
         THEN LET intersect == getMiddle(dot, getLast(pat)) IN
              IF isAlreadyVisited(pat, intersect)
              THEN AllowedLoop(pat, k + 1, cand)
              ELSE AllowedLoop(pat, k + 1, ListRemove(cand, dot))
         ELSE AllowedLoop(pat, k + 1, cand)

\* A rule that lets no far-collinear dot through, visited midpoint or not.
getAllowedNextDotsNoSkip(pat) ==
    SelectSeq(allDots, LAMBDA d : ~ InList(d, pat)
                                  /\ ~ InList(d, getEndLinear(getLast(pat))))

\* A rule that also drops the dots that are neither adjacent nor
\* far-collinear.
getAllowedNextDotsStrict(pat) ==
    SelectSeq(AllowedLoop(pat, 1, allDots),
              LAMBDA d : InList(d, getAdjacent(getLast(pat)))
                         \/ InList(d, getEndLinear(getLast(pat))))

getAllowedNextDots(pat) == AllowedLoop(pat, 1, allDots)


-----------------------------------------------------------------------------
(* Pattern enumerator: pure parts                                          *)

\* A loop that stops one allowed dot short.
getNextOptionsDropLast(pat) ==
    LET opts == getAllowedNextDots(pat)
    IN  [ k \in 1 .. (Len(opts) - 1) |-> Append(pat, opts[k]) ]

\* A loop that appends the position of the allowed dot, not the dot.
getNextOptionsAppendIndex(pat) ==
    LET opts == getAllowedNextDots(pat)
    IN  [ k \in 1 .. Len(opts) |-> Append(pat, k - 1) ]

\* One candidate (a copy of the pattern with the dot appended) per allowed dot.
getNextOptions(pat) ==
    LET opts == getAllowedNextDots(pat)
    IN  [ k \in 1 .. Len(opts) |-> Append(pat, opts[k]) ]

\* "for branch in currentPattern: nextOpts.extend(getNextOptions(branch))"
\* over branches lo..hi: the concatenation, in order, of the options of each
\* branch (split in halves to keep the evaluation shallow).
RECURSIVE ExtendBranches(_, _, _)
ExtendBranches(branches, lo, hi) ==
    IF lo > hi THEN << >>
    ELSE IF lo = hi THEN getNextOptions(branches[lo])
    ELSE LET mid == (lo + hi) \div 2
         IN  ExtendBranches(branches, lo, mid)
                 \o ExtendBranches(branches, mid + 1, hi)

\* range(9) in findAllPatterns
NumStarts == 9

\* range(4, maxLength+1) in findAllCombinations
MinLength == 4

\* findAllCombinations(9)
MaxLength == 9

\* One iteration of "for i in range(iterationsToDo)" of recursivelyEvaluate:
\* the value given to currentPattern.  In the first iteration cur is the one
\* pattern [patternStart], afterwards it is the list of branches.
RoundResult(k, cur) ==
    IF k = 0 THEN getNextOptions(cur)
    ELSE ExtendBranches(cur, 1, Len(cur))

\* Iterations k, k+1, ... todo-1 of that loop, and the value returned
RECURSIVE Rounds(_, _, _)
Rounds(k, todo, cur) ==
    IF k >= todo THEN cur
    ELSE Rounds(k + 1, todo, RoundResult(k, cur))

\* lstStart = [patternStart]; currentLength = len(lstStart);
\* currentPattern = lstStart.copy()
recursivelyEvaluate(s, n) == Rounds(0, n - Len(<< s >>), << s >>)

\* findAllPatterns: "for i in range(9)" from start s on
RECURSIVE StartsFrom(_, _)
StartsFrom(s, n) ==
    IF s >= NumStarts THEN << >>
    ELSE recursivelyEvaluate(s, n) \o StartsFrom(s + 1, n)

findAllPatterns(n) == StartsFrom(0, n)

\* The assertions of test(); False makes the script stop with AssertionError.
testPasses ==
    /\ InList(6, getLinear(0))
    /\ ~ InList(5, getLinear(0))
    /\ isAlreadyVisited(<< 0, 1, 4 >>, 1)
    /\ ~ isAlreadyVisited(<< 0, 1, 4 >>, 3)
    /\ \A d \in { 1, 4, 7, 5 } : InList(d, getAllowedNextDots(<< 0, 3, 6 >>))
    /\ \A d \in { 0, 2, 3, 6, 8 } :
           ~ InList(d, getAllowedNextDots(<< 0, 3, 6 >>))
    /\ \A d \in { 6, 7, 8 } :
           InList(d, getAllowedNextDots(<< 2, 1, 5, 4, 3, 0 >>))
    /\ \A d \in { 2, 1, 5, 4, 3, 0 } :
           ~ InList(d, getAllowedNextDots(<< 2, 1, 5, 4, 3, 0 >>))
    /\ InList(4, getAllowedNextDots(<< 0, 7 >>))
    /\ ~ InList(1, getAllowedNextDots(<< 0, 7 >>))
    /\ InList(1, getAllowedNextDots(<< 0, 4, 7 >>))

-----------------------------------------------------------------------------
(* State                                                                   *)

topoVars == << call >>

ruleVars == << pattern, candidateDots >>

evalVars == << patternStart, targetLength, iterationsToDo, i,
               currentPattern, ret >>

mainVars == << length, lenThisSet, lenX >>

NoCall == [ fn |-> "none", args |-> << >>, result |-> None,
            outcome |-> "none" ]

IdleTopo == call = NoCall

IdleRule == pattern = << >> /\ candidateDots = << >>

IdleEval ==
    /\ patternStart = None
    /\ targetLength = 0
    /\ iterationsToDo = 0
    /\ i = 0
    /\ currentPattern = << >>
    /\ ret = << >>

IdleMain ==
    /\ length = 0
    /\ lenThisSet = 0
    /\ lenX = 0

-----------------------------------------------------------------------------
(* Calls of the grid-topology functions.  None of them has a raise          *)
(* statement or an operation that can fail on integers, so each call ends   *)
(* by returning.                                                            *)

CallGetAdjacent ==
    \E dot \in Dots :
        call' = [ fn |-> "getAdjacent", args |-> << dot >>,
                  result |-> getAdjacent(dot), outcome |-> "returned" ]

CallGetLinear ==
    \E dot \in Dots :
        call' = [ fn |-> "getLinear", args |-> << dot >>,
                  result |-> getLinear(dot), outcome |-> "returned" ]

CallGetEndLinear ==
    \E dot \in Dots :
        call' = [ fn |-> "getEndLinear", args |-> << dot >>,
                  result |-> getEndLinear(dot), outcome |-> "returned" ]

CallGetMiddle ==
    \E dot1 \in Dots, dot2 \in Dots :
        call' = [ fn |-> "getMiddle", args |-> << dot1, dot2 >>,
                  result |-> getMiddle(dot1, dot2), outcome |-> "returned" ]

InitTopology == IdleTopo /\ IdleRule /\ IdleEval /\ IdleMain /\ pc = "topology"

NextTopology ==
    /\ \/ CallGetAdjacent
       \/ CallGetLinear
       \/ CallGetEndLinear
       \/ CallGetMiddle
    /\ UNCHANGED << pc, ruleVars, evalVars, mainVars >>

SpecTopology == InitTopology /\ [][NextTopology]_vars

-----------------------------------------------------------------------------
(* Calls of getAllowedNextDots on every non-empty duplicate-free pattern:   *)
(* each call is on the previous argument with one more unvisited dot.       *)

CallGetAllowedNextDots ==
    \E dot \in Dots :
        /\ ~ InList(dot, pattern)
        /\ pattern' = Append(pattern, dot)
        /\ candidateDots' = getAllowedNextDots(pattern')

InitRule == IdleTopo /\ IdleRule /\ IdleEval /\ IdleMain /\ pc = "rule"

NextRule ==
    /\ CallGetAllowedNextDots
    /\ UNCHANGED << pc, topoVars, evalVars, mainVars >>

SpecRule == InitRule /\ [][NextRule]_vars

-----------------------------------------------------------------------------
(* A call of recursivelyEvaluate(patternStart, targetLength), one step per  *)
(* iteration of its loop                                                    *)

\* One iteration of "for i in range(iterationsToDo)"
Round ==
    /\ pc = "recursivelyEvaluate"
    /\ i < iterationsToDo
    /\ currentPattern' = RoundResult(i, currentPattern)
    /\ i' = i + 1
    /\ UNCHANGED << pc, patternStart, targetLength, iterationsToDo, ret >>

\* "return currentPattern"
Return ==
    /\ pc = "recursivelyEvaluate"
    /\ i >= iterationsToDo
    /\ ret' = currentPattern
    /\ pc' = "returned"
    /\ UNCHANGED << patternStart, targetLength, iterationsToDo, i,
                    currentPattern >>

\* currentPattern is the one pattern [patternStart] until the first iteration
\* has run and is a list of patterns from then on; with no iteration the
\* function returns the pattern itself.
ReturnsPatternList == i > 0

\* recursivelyEvaluate called with any start and any length 1..9
InitEval ==
    /\ IdleTopo /\ IdleRule /\ IdleMain
    /\ ret = << >>
    /\ \E s \in Dots, n \in 1 .. MaxLength :
           /\ patternStart = s
           /\ targetLength = n
           /\ currentPattern = << s >>
           /\ iterationsToDo = n - Len(<< s >>)
           /\ i = 0
           /\ pc = "recursivelyEvaluate"

-----------------------------------------------------------------------------
(* The script: test(), then x = findAllCombinations(9), one step per        *)
(* iteration of the loop of findAllCombinations                             *)

\* test(): an assertion that fails ends the script; otherwise
\* findAllCombinations starts with allPatterns = []
Test ==
    /\ pc = "test"
    /\ IF testPasses
       THEN pc' = "findAllCombinations" /\ length' = MinLength
       ELSE pc' = "aborted" /\ UNCHANGED length
    /\ UNCHANGED << evalVars, lenThisSet, lenX >>

\* One iteration of "for i in range(4, maxLength+1)":
\* thisSet = findAllPatterns(i); allPatterns.extend(thisSet), which makes
\* allPatterns longer by len(thisSet)
LengthStep ==
    /\ pc = "findAllCombinations"
    /\ length <= MaxLength
    /\ lenThisSet' = Len(findAllPatterns(length))
    /\ lenX' = lenX + lenThisSet'
    /\ length' = length + 1
    /\ UNCHANGED << pc, evalVars >>

\* The list thisSet that the last iteration appended to allPatterns
thisSet == findAllPatterns(length - 1)

\* An iteration of the loop of findAllCombinations has just run
Appended == pc = "findAllCombinations" /\ length > MinLength

\* "return allPatterns": x is bound and its length reported
Finish ==
    /\ pc = "findAllCombinations"
    /\ length > MaxLength
    /\ pc' = "done"
    /\ UNCHANGED << evalVars, mainVars >>

InitScript == IdleTopo /\ IdleRule /\ IdleEval /\ IdleMain /\ pc = "test"

\* Either the script runs, or recursivelyEvaluate is called on its own.
Init == InitScript \/ InitEval

Next ==
    \/ Test /\ UNCHANGED << topoVars, ruleVars >>
    \/ LengthStep /\ UNCHANGED << topoVars, ruleVars >>
    \/ Finish /\ UNCHANGED << topoVars, ruleVars >>
    \/ Round /\ UNCHANGED << topoVars, ruleVars, mainVars >>
    \/ Return /\ UNCHANGED << topoVars, ruleVars, mainVars >>

Spec == Init /\ [][Next]_vars

-----------------------------------------------------------------------------
(* Grid geometry the properties are stated against                         *)

Row(d) == d \div 3

Col(d) == d % 3

Abs(n) == IF n < 0 THEN 0 - n ELSE n

\* The dots one king's move away from p
KingNeighbours(p) ==
    { q \in Dots \ { p } :
        Abs(Row(p) - Row(q)) <= 1 /\ Abs(Col(p) - Col(q)) <= 1 }

\* Quarter turn and left-right mirror image of the grid, as relabelings
Rotate(d) == 3 * Col(d) + (2 - Row(d))

Mirror(d) == 3 * Row(d) + (2 - Col(d))

RECURSIVE Turns(_, _)
Turns(k, d) == IF k = 0 THEN d ELSE Turns(k - 1, Rotate(d))

\* The 8 dihedral symmetries: 4 rotations and 4 reflections
Symmetries ==
    { [ d \in Dots |-> Turns(k, d) ] : k \in 0 .. 3 }
        \cup { [ d \in Dots |-> Turns(k, Mirror(d)) ] : k \in 0 .. 3 }

\* The relabeling that undoes s
Inverse(s) == [ d \in Dots |-> CHOOSE e \in Dots : s[e] = d ]

Relabel(s, pat) == [ k \in 1 .. Len(pat) |-> s[pat[k]] ]

Distinct(pat) == \A j, k \in 1 .. Len(pat) : j # k => pat[j] # pat[k]

\* The dot at position k of pat is reached by a move that is adjacent
\* (per getAdjacent) or skips over a midpoint seen earlier in pat
StrictMove(pat, k) ==
    \/ InList(pat[k], getAdjacent(pat[k - 1]))
    \/ /\ InList(pat[k], getEndLinear(pat[k - 1]))
       /\ \E m \in 1 .. (k - 1) : pat[m] = getMiddle(pat[k - 1], pat[k])

\* The dot at position k of pat is not far-collinear with its predecessor,
\* or the midpoint of the two was seen earlier in pat
LegalMove(pat, k) ==
    \/ ~ InList(pat[k], getEndLinear(pat[k - 1]))
    \/ \E m \in 1 .. (k - 1) : pat[m] = getMiddle(pat[k - 1], pat[k])

-----------------------------------------------------------------------------
(* Properties                                                              *)

\* C1: the list x returned by findAllCombinations(9) holds exactly 389,112
\* patterns.
C1_Total == pc = "done" => lenX = 389112

C1_Witness == pc = "done" /\ lenX > 0

C4_Distinct ==
    pc = "recursivelyEvaluate" =>
        IF ReturnsPatternList
        THEN \A n \in 1 .. Len(currentPattern) : Distinct(currentPattern[n])
        ELSE Distinct(currentPattern)

C4_Witness ==
    /\ pc = "recursivelyEvaluate"
    /\ i = MaxLength - 1
    /\ Len(currentPattern) > 0
    /\ Len(currentPattern[1]) = MaxLength

\* C5: for each length 4..9 and each of the 8 symmetries s of the grid, a
\* pattern is in findAllPatterns(n) if and only if its relabeling by s is:
\* the relabeling of every member is a member, and every member is the
\* relabeling of a member.
C5_Symmetric ==
    Appended =>
        LET found == Range(thisSet)
        IN  \A s \in Symmetries :
                \A p \in found :
                    /\ Relabel(s, p) \in found
                    /\ Relabel(Inverse(s), p) \in found

\* findAllPatterns(4) is computed; it holds [0, 1, 2, 5] and its mirror image.
C5_Witness ==
    /\ Appended
    /\ length = MinLength + 1
    /\ Cardinality(Symmetries) = 8
    /\ LET found == Range(thisSet)
       IN  << 0, 1, 2, 5 >> \in found /\ << 2, 1, 0, 3 >> \in found

\* C6: getAllowedNextDots(pattern) is empty only when the pattern holds all
\* 9 dots.
C6_NoDeadEnd ==
    (pattern # << >> /\ candidateDots = << >>) => Len(pattern) = Len(allDots)

C6_Witness == Len(pattern) = Len(allDots) /\ candidateDots = << >>

\* C7: recursivelyEvaluate(start, 1) returns the list [[start]], a list of
\* patterns, not the pattern [start] itself.
C7_SingletonList ==
    (pc = "returned" /\ targetLength = 1) =>
        ReturnsPatternList /\ ret = << << patternStart >> >>

\* C8: getMiddle(a, b) with b not in getEndLinear(a) ends in an error, it
\* does not return.
C8_FailsLoudly ==
    (call.fn = "getMiddle"
        /\ ~ InList(call.args[2], getEndLinear(call.args[1])))
            => call.outcome = "raised"

\* C9: the set of getAdjacent(p) is the set of king-move neighbours of p.
C9_KingMoves ==
    call.fn = "getAdjacent" =>
        Range(call.result) = KingNeighbours(call.args[1])

=============================================================================
